---- MODULE Spec2Model ----
(***************************************************************************)
(* AlwaysConnected (keep-online): the connection supervisor of             *)
(* websocket.js.  One instance, driven by its public operations, by the    *)
(* host's timers and by the completion of the handshake promises.          *)
(*                                                                         *)
(* Sockets are numbered in the order createWs() returns them (1, 2, ...),  *)
(* connection tokens in the order handleWebSocketOpen() stamps them.       *)
(* A timer handle is an opaque number: setTimeout/setInterval return one   *)
(* that no pending timer holds.                                            *)
(***************************************************************************)
EXTENDS Integers, Sequences, FiniteSets, TLC

\* ---- bounds of the model ------------------------------------------------
MaxSockets == 3
MaxTokens == 2
MaxReconnectTimers == 2
MaxWatchdogs == 2
MaxCalls == 2
MaxMessages == 2

\* ---- values -------------------------------------------------------------
Null == 0
\* a socket the factory of this instance never returned
Foreign == Null - 1

Disconnected == "disconnected"
Connecting == "connecting"
Reconnecting == "reconnecting"
Limbo == "limbo"
Connected == "connected"
Error == "error"

ConnectionState ==
  {Disconnected, Connecting, Reconnecting, Limbo, Connected, Error}

VARIABLES
  active,              \* #active
  ws,                  \* #ws: Null or a socket
  state,               \* #state
  connectionWatchdog,  \* #connectionWatchdog: Null or a timeout handle
  heartbeatTimeout,    \* #heartbeatTimeout: Null or an interval handle
  connectionToken,     \* #connectionToken: Null or a token
  watchdogTimers,      \* host: handles of the pending watchdog timeouts
  heartbeatTimers,     \* host: handles of the running heartbeat intervals
  reconnectTimers,     \* host: number of pending reconnect-delay timeouts
  handshakes,          \* tokens captured by the pending .then continuations
  created,             \* number of sockets createWs() has returned
  tokens,              \* number of tokens stamped
  closed,              \* sockets on which close() has been called
  interrupted,         \* history: shutdown or the reconnect procedure ran
                       \*   since the last transport-open (TRUE before any)
  afterShutdown,       \* history: shutdown() was called and activate() has
                       \*   not been accepted since
  effects,             \* what the last operation did, in order
  op,                  \* the last operation and its arguments
  phase,               \* scenario monitor, see Follow
  notified             \* notifications delivered while the run follows
                       \*   the scenario

\* GreatWebSocket: the request correlation layer
VARIABLES
  pendingCommands,     \* #pendingCommands, in issuance order
  promises,            \* the promise call() returned, by exchange
  issued,              \* number of exchanges call() has created
  inbound,             \* the message of the last tryHandleAsControlMessage
  rpcEffects,          \* what the last call or dispatch did, in order
  resolveOrder         \* history: the exchanges on which resolve was
                       \*   called, in the order of the calls

rpcVars ==
  <<pendingCommands, promises, issued, inbound, rpcEffects, resolveOrder>>

vars ==
  <<active, ws, state, connectionWatchdog, heartbeatTimeout, connectionToken,
    watchdogTimers, heartbeatTimers, reconnectTimers, handshakes, created,
    tokens, closed, interrupted, afterShutdown, effects, op, phase, notified,
    pendingCommands, promises, issued, inbound, rpcEffects, resolveOrder>>

\* ---- observable effects of an operation ---------------------------------
StateChange(s) == [kind |-> "statechange", state |-> s, ws |-> Null]
ConnectionTimeoutEvent == [kind |-> "connectiontimeout", state |-> "", ws |-> Null]
CloseCall(s) == [kind |-> "close", state |-> "", ws |-> s]
CreateCall(s) == [kind |-> "createWs", state |-> "", ws |-> s]
HeartbeatCall(s) == [kind |-> "sendHeartbeat", state |-> "", ws |-> s]
SendCall(s) == [kind |-> "send", state |-> "", ws |-> s]
Thrown == [kind |-> "throw", state |-> "Already active", ws |-> Null]

Op(name, s, t, ok) == [name |-> name, ws |-> s, token |-> t, success |-> ok]

\* the instance as one value, so that the methods compose
Self ==
  [active |-> active, ws |-> ws, state |-> state,
   connectionWatchdog |-> connectionWatchdog,
   heartbeatTimeout |-> heartbeatTimeout,
   connectionToken |-> connectionToken,
   watchdogTimers |-> watchdogTimers, heartbeatTimers |-> heartbeatTimers,
   reconnectTimers |-> reconnectTimers, handshakes |-> handshakes,
   created |-> created, tokens |-> tokens, closed |-> closed,
   interrupted |-> interrupted, afterShutdown |-> afterShutdown,
   effects |-> <<>>]

\* a handle no pending timer of the set holds
FreshHandle(pending) == CHOOSE h \in 1..(Cardinality(pending) + 1) : h \notin pending

dispatchEvent(r, e) == [r EXCEPT !.effects = Append(@, e)]

startConnectionWatchdog(r) ==
  LET h == FreshHandle(r.watchdogTimers)
  IN  [r EXCEPT !.connectionWatchdog = h, !.watchdogTimers = @ \cup {h}]

stopConnectionWatchdog(r) ==
  IF r.connectionWatchdog # Null
    THEN [r EXCEPT !.watchdogTimers = @ \ {r.connectionWatchdog},
                   !.connectionWatchdog = Null]
    ELSE r

\* variant: transitionToState without the same-state return
transitionToStateAlways(r, s) ==
  LET r1 == [r EXCEPT !.state = s]
      r2 == IF s = Limbo THEN startConnectionWatchdog(r1)
            ELSE IF s = Connected THEN stopConnectionWatchdog(r1)
            ELSE r1
  IN  dispatchEvent(r2, StateChange(s))

transitionToState(r, s) ==
  IF r.state = s
    THEN r
    ELSE LET r1 == [r EXCEPT !.state = s]
             r2 == IF s = Limbo THEN startConnectionWatchdog(r1)
                   ELSE IF s = Connected THEN stopConnectionWatchdog(r1)
                   ELSE r1
         IN  dispatchEvent(r2, StateChange(s))

\* variant: the socket released without close()
closeWsSkipped(r) == r

\* this.#ws?.close()
closeWs(r) ==
  IF r.ws # Null
    THEN [r EXCEPT !.closed = @ \cup {r.ws},
                   !.effects = Append(@, CloseCall(r.ws))]
    ELSE r

\* this.#ws = this.createWs()
createWs(r) ==
  [r EXCEPT !.created = @ + 1, !.ws = r.created + 1,
            !.effects = Append(@, CreateCall(r.created + 1))]

\* variant: the reconnect procedure without the reconnect-delay timer
reconnectIfNeededNoTimer(r, eventTarget) ==
  IF eventTarget # Null /\ eventTarget # r.ws
    THEN r
    ELSE LET r1 == [r EXCEPT !.connectionToken = Null, !.interrupted = TRUE]
         IN  IF ~r1.active
               THEN transitionToState(r1, Disconnected)
               ELSE LET r2 == transitionToState(r1, Reconnecting)
                        r3 == stopConnectionWatchdog(r2)
                        r4 == closeWs(r3)
                    IN  [r4 EXCEPT !.ws = Null]

\* variant: the reconnect procedure without the socket-identity check
reconnectIfNeededAnySocket(r, eventTarget) ==
  LET r1 == [r EXCEPT !.connectionToken = Null, !.interrupted = TRUE]
  IN  IF ~r1.active
        THEN transitionToState(r1, Disconnected)
        ELSE LET r2 == transitionToState(r1, Reconnecting)
                 r3 == stopConnectionWatchdog(r2)
                 r4 == closeWs(r3)
             IN  [r4 EXCEPT !.ws = Null, !.reconnectTimers = @ + 1]

\* variant: the reconnect procedure entering Error when inactive
reconnectIfNeededToError(r, eventTarget) ==
  IF eventTarget # Null /\ eventTarget # r.ws
    THEN r
    ELSE LET r1 == [r EXCEPT !.connectionToken = Null, !.interrupted = TRUE]
         IN  IF ~r1.active
               THEN transitionToState(r1, Error)
               ELSE LET r2 == transitionToState(r1, Reconnecting)
                        r3 == stopConnectionWatchdog(r2)
                        r4 == closeWs(r3)
                    IN  [r4 EXCEPT !.ws = Null, !.reconnectTimers = @ + 1]

\* variant: the reconnect procedure without the active check
reconnectIfNeededNoActive(r, eventTarget) ==
  IF eventTarget # Null /\ eventTarget # r.ws
    THEN r
    ELSE LET r1 == [r EXCEPT !.connectionToken = Null, !.interrupted = TRUE]
             r2 == transitionToState(r1, Reconnecting)
             r3 == stopConnectionWatchdog(r2)
             r4 == closeWs(r3)
         IN  [r4 EXCEPT !.ws = Null, !.reconnectTimers = @ + 1]

reconnectIfNeeded(r, eventTarget) ==
  IF eventTarget # Null /\ eventTarget # r.ws
    THEN r
    ELSE LET r1 == [r EXCEPT !.connectionToken = Null, !.interrupted = TRUE]
         IN  IF ~r1.active
               THEN transitionToState(r1, Disconnected)
               ELSE LET r2 == transitionToState(r1, Reconnecting)
                        r3 == stopConnectionWatchdog(r2)
                        r4 == closeWs(r3)
                    IN  [r4 EXCEPT !.ws = Null, !.reconnectTimers = @ + 1]

\* variant: the reconnect-delay callback without the socket check
reconnectTimerCallbackNoSocketCheck(r) ==
  IF ~r.active THEN r ELSE createWs(r)

\* variant: the reconnect-delay callback without the active check
reconnectTimerCallbackNoActive(r) ==
  IF r.ws # Null THEN r ELSE createWs(r)

\* the callback of the reconnect-delay timeout
reconnectTimerCallback(r) ==
  IF ~r.active \/ r.ws # Null THEN r ELSE createWs(r)

\* variant: the heartbeat callback without the state check
heartbeatCallbackAnyState(r) ==
  IF ~r.active \/ r.ws = Null
    THEN r
    ELSE dispatchEvent(r, HeartbeatCall(r.ws))

\* the callback of the heartbeat interval
heartbeatCallback(r) ==
  IF ~r.active \/ r.state # Connected \/ r.ws = Null
    THEN r
    ELSE dispatchEvent(r, HeartbeatCall(r.ws))

\* variant: the watchdog callback reconnecting before it notifies
watchdogCallbackReconnectFirst(r) ==
  dispatchEvent(reconnectIfNeeded(r, Null), ConnectionTimeoutEvent)

\* the callback of the watchdog timeout
watchdogCallback(r) ==
  reconnectIfNeeded(dispatchEvent(r, ConnectionTimeoutEvent), Null)

\* variant: activate without the 'Already active' check
activateUnguarded(r) ==
  LET r0 == [r EXCEPT !.active = TRUE, !.afterShutdown = FALSE]
      r1 == transitionToState(r0, Connecting)
      h  == FreshHandle(r1.heartbeatTimers)
      r2 == [r1 EXCEPT !.heartbeatTimeout = h, !.heartbeatTimers = @ \cup {h}]
  IN  createWs(r2)

\* variant: activate as in the earlier revision, which leaves the state alone
activateNoTransition(r) ==
  IF r.active
    THEN dispatchEvent(r, Thrown)
    ELSE LET r0 == [r EXCEPT !.active = TRUE, !.afterShutdown = FALSE]
             h  == FreshHandle(r0.heartbeatTimers)
             r2 == [r0 EXCEPT !.heartbeatTimeout = h,
                              !.heartbeatTimers = @ \cup {h}]
         IN  createWs(r2)

activate(r) ==
  IF r.active
    THEN dispatchEvent(r, Thrown)
    ELSE LET r0 == [r EXCEPT !.active = TRUE, !.afterShutdown = FALSE]
             r1 == transitionToState(r0, Connecting)
             h  == FreshHandle(r1.heartbeatTimers)
             r2 == [r1 EXCEPT !.heartbeatTimeout = h,
                              !.heartbeatTimers = @ \cup {h}]
         IN  createWs(r2)

\* variant: shutdown as in the earlier revision, which leaves the state alone
shutdownKeepState(r) ==
  LET r1 == [r EXCEPT !.connectionToken = Null, !.interrupted = TRUE,
                      !.afterShutdown = TRUE]
      r2 == IF r1.heartbeatTimeout # Null
              THEN [r1 EXCEPT !.heartbeatTimers = @ \ {r1.heartbeatTimeout},
                              !.heartbeatTimeout = Null]
              ELSE r1
      r3 == stopConnectionWatchdog(r2)
  IN  closeWs([r3 EXCEPT !.active = FALSE])

\* variant: shutdown leaving the heartbeat interval running
shutdownKeepHeartbeat(r) ==
  LET r1 == [r EXCEPT !.connectionToken = Null, !.interrupted = TRUE,
                      !.afterShutdown = TRUE]
      r3 == stopConnectionWatchdog(r1)
      r4 == closeWs([r3 EXCEPT !.active = FALSE])
  IN  [r4 EXCEPT !.state = Disconnected]

shutdown(r) ==
  LET r1 == [r EXCEPT !.connectionToken = Null, !.interrupted = TRUE,
                      !.afterShutdown = TRUE]
      r2 == IF r1.heartbeatTimeout # Null
              THEN [r1 EXCEPT !.heartbeatTimers = @ \ {r1.heartbeatTimeout},
                              !.heartbeatTimeout = Null]
              ELSE r1
      r3 == stopConnectionWatchdog(r2)
      r4 == closeWs([r3 EXCEPT !.active = FALSE])
  IN  [r4 EXCEPT !.state = Disconnected]

\* the synchronous part of handleWebSocketOpen
handleWebSocketOpen(r) ==
  LET t  == r.tokens + 1
      r1 == [r EXCEPT !.tokens = t, !.connectionToken = t,
                      !.interrupted = FALSE]
      r2 == transitionToState(r1, Limbo)
  IN  [r2 EXCEPT !.handshakes = @ \cup {t}]

\* variant: the continuation as in the earlier revision, without the token
handshakeContinuationNoToken(r, t, success) ==
  LET r1 == [r EXCEPT !.handshakes = @ \ {t}]
  IN  IF success THEN transitionToState(r1, Connected) ELSE r1

\* variant: the continuation running the reconnect procedure on false
handshakeContinuationFailFast(r, t, success) ==
  LET r1 == [r EXCEPT !.handshakes = @ \ {t}]
  IN  IF r1.connectionToken # t
        THEN r1
        ELSE IF success THEN transitionToState(r1, Connected)
             ELSE reconnectIfNeeded(r1, Null)

\* the .then continuation of onConnectedFn(), which captured token t
handshakeContinuation(r, t, success) ==
  LET r1 == [r EXCEPT !.handshakes = @ \ {t}]
  IN  IF r1.connectionToken # t
        THEN r1
        ELSE IF success THEN transitionToState(r1, Connected) ELSE r1

handleWebSocketError(r, s) == reconnectIfNeeded(r, s)

handleWebSocketClosed(r, s) == reconnectIfNeeded(r, s)

handleWebSocketHeartbeatTimeout(r) == reconnectIfNeeded(r, Null)

\* ---- GreatWebSocket: send ------------------------------------------------
isConnected(r) == r.state = Connected

\* send(data): this.websocket?.send(data) once isConnected() holds; the
\* value returned is isConnected()
send(r) ==
  IF ~isConnected(r) THEN r
  ELSE IF r.ws # Null THEN dispatchEvent(r, SendCall(r.ws))
  ELSE r

\* ---- GreatWebSocket: request correlation ---------------------------------
\* the parsed inbound messages
Messages == 1..MaxMessages

\* a RemoteCommand as the caller supplies it: the messages its
\* responseMatches accepts and whether its execute throws
Commands == [accepts : SUBSET Messages, throws : BOOLEAN]

responseMatches(command, message) == message \in command.accepts

\* the caller's transform: a value that depends on the command and the message
handleResponse(command, message) == <<command, message>>

\* a PendingCommand; the objects are distinct, which the number stands for
PendingCommand(n, command) == [id |-> n, command |-> command]

\* the states of a promise
Unsettled == [status |-> "pending", value |-> <<>>]
Resolved(v) == [status |-> "resolved", value |-> v]
Rejected == [status |-> "rejected", value |-> <<>>]

\* resolve and reject act on an unsettled promise only
Settle(p, outcome) == IF p.status = "pending" THEN outcome ELSE p

ExecuteCall(n) == [kind |-> "execute", id |-> n, value |-> <<>>]
HandleResponseCall(n, m) == [kind |-> "handleResponse", id |-> n, value |-> <<m>>]
ResolveCall(n, v) == [kind |-> "resolve", id |-> n, value |-> v]

This ==
  [pendingCommands |-> pendingCommands, promises |-> promises,
   issued |-> issued, returned |-> FALSE, rpcEffects |-> <<>>]

\* call(command): the executor pushes the exchange, then runs execute; an
\* exception of execute leaves the executor and rejects the promise
call(r, command) ==
  LET cmd == PendingCommand(r.issued + 1, command) IN
  [r EXCEPT !.issued = cmd.id,
            !.pendingCommands = Append(r.pendingCommands, cmd),
            !.promises = Append(r.promises,
                                IF command.throws THEN Rejected ELSE Unsettled),
            !.rpcEffects = <<ExecuteCall(cmd.id)>>]

\* variant: find without the predicate, which yields the oldest exchange
findOldest(cmds, message) == IF cmds = <<>> THEN Null ELSE 1

\* Array.prototype.find: the position of the first exchange that matches,
\* Null if none does
find(cmds, message) ==
  LET hits == {i \in 1..Len(cmds) : responseMatches(cmds[i].command, message)}
  IN IF hits = {} THEN Null ELSE CHOOSE i \in hits : \A j \in hits : i <= j

\* variant: the dispatch without the removal of the matched exchange
tryHandleAsControlMessageNoRemove(r, message) ==
  LET at == find(r.pendingCommands, message) IN
  IF at = Null THEN [r EXCEPT !.returned = FALSE]
  ELSE LET matchedCommand == r.pendingCommands[at]
           result == handleResponse(matchedCommand.command, message)
       IN [r EXCEPT !.promises[matchedCommand.id] = Settle(@, Resolved(result)),
                    !.rpcEffects =
                       <<HandleResponseCall(matchedCommand.id, message),
                         ResolveCall(matchedCommand.id, result)>>,
                    !.returned = TRUE]

\* variant: the dispatch dropping the exchanges issued before the matched one
tryHandleAsControlMessageDropEarlier(r, message) ==
  LET at == find(r.pendingCommands, message) IN
  IF at = Null THEN [r EXCEPT !.returned = FALSE]
  ELSE LET matchedCommand == r.pendingCommands[at]
           result == handleResponse(matchedCommand.command, message)
       IN [r EXCEPT !.promises[matchedCommand.id] = Settle(@, Resolved(result)),
                    !.pendingCommands =
                       SubSeq(r.pendingCommands, at + 1, Len(r.pendingCommands)),
                    !.rpcEffects =
                       <<HandleResponseCall(matchedCommand.id, message),
                         ResolveCall(matchedCommand.id, result)>>,
                    !.returned = TRUE]

tryHandleAsControlMessage(r, message) ==
  LET at == find(r.pendingCommands, message) IN
  IF at = Null THEN [r EXCEPT !.returned = FALSE]
  ELSE LET matchedCommand == r.pendingCommands[at]
           result == handleResponse(matchedCommand.command, message)
       IN [r EXCEPT !.promises[matchedCommand.id] = Settle(@, Resolved(result)),
                    !.pendingCommands =
                       SelectSeq(r.pendingCommands,
                                 LAMBDA cmd : cmd # matchedCommand),
                    !.rpcEffects =
                       <<HandleResponseCall(matchedCommand.id, message),
                         ResolveCall(matchedCommand.id, result)>>,
                    !.returned = TRUE]

\* ---- scenario monitor ---------------------------------------------------
\* Follows the run from construction through activate(), handleWebSocketOpen()
\* and then either a handshake that resolves true or, after any number of
\* handshakes resolving false, the watchdog; any other step turns it off.
Follow(p, o) ==
  IF p = "fresh" /\ o.name = "activate" THEN "activated"
  ELSE IF p = "activated" /\ o.name = "handleWebSocketOpen" THEN "opened"
  ELSE IF p = "opened" /\ o.name = "handshake" /\ o.success THEN "handshaken"
  ELSE IF p = "opened" /\ o.name = "handshake" /\ ~o.success THEN "opened"
  ELSE IF p = "opened" /\ o.name = "watchdog" THEN "timedout"
  ELSE "off"

Notifications(es) ==
  SelectSeq(es, LAMBDA e : e.kind \in {"statechange", "connectiontimeout"})

\* ---- the state machine --------------------------------------------------
Within(r) ==
  /\ r.created <= MaxSockets
  /\ r.tokens <= MaxTokens
  /\ r.reconnectTimers <= MaxReconnectTimers
  /\ Cardinality(r.watchdogTimers) <= MaxWatchdogs

\* variant: a supervisor step in which shutdown empties the pending array
CommitDroppingExchanges(r, o) ==
  /\ Within(r)
  /\ active' = r.active
  /\ ws' = r.ws
  /\ state' = r.state
  /\ connectionWatchdog' = r.connectionWatchdog
  /\ heartbeatTimeout' = r.heartbeatTimeout
  /\ connectionToken' = r.connectionToken
  /\ watchdogTimers' = r.watchdogTimers
  /\ heartbeatTimers' = r.heartbeatTimers
  /\ reconnectTimers' = r.reconnectTimers
  /\ handshakes' = r.handshakes
  /\ created' = r.created
  /\ tokens' = r.tokens
  /\ closed' = r.closed
  /\ interrupted' = r.interrupted
  /\ afterShutdown' = r.afterShutdown
  /\ effects' = r.effects
  /\ op' = o
  /\ phase' = Follow(phase, o)
  /\ notified' = IF Follow(phase, o) = "off"
                   THEN <<>>
                   ELSE notified \o Notifications(r.effects)
  /\ pendingCommands' = IF o.name = "shutdown" THEN <<>> ELSE pendingCommands
  /\ UNCHANGED <<promises, issued, inbound, rpcEffects, resolveOrder>>

Commit(r, o) ==
  /\ Within(r)
  /\ active' = r.active
  /\ ws' = r.ws
  /\ state' = r.state
  /\ connectionWatchdog' = r.connectionWatchdog
  /\ heartbeatTimeout' = r.heartbeatTimeout
  /\ connectionToken' = r.connectionToken
  /\ watchdogTimers' = r.watchdogTimers
  /\ heartbeatTimers' = r.heartbeatTimers
  /\ reconnectTimers' = r.reconnectTimers
  /\ handshakes' = r.handshakes
  /\ created' = r.created
  /\ tokens' = r.tokens
  /\ closed' = r.closed
  /\ interrupted' = r.interrupted
  /\ afterShutdown' = r.afterShutdown
  /\ effects' = r.effects
  /\ op' = o
  /\ phase' = Follow(phase, o)
  /\ notified' = IF Follow(phase, o) = "off"
                   THEN <<>>
                   ELSE notified \o Notifications(r.effects)
  /\ UNCHANGED rpcVars

\* the exchanges on which a sequence of calls called resolve
ResolvedBy(es) ==
  [i \in DOMAIN SelectSeq(es, LAMBDA e : e.kind = "resolve")
     |-> SelectSeq(es, LAMBDA e : e.kind = "resolve")[i].id]

\* a step of the correlation layer; the supervisor is not involved
RpcCommit(r, o, m) ==
  /\ r.issued <= MaxCalls
  /\ pendingCommands' = r.pendingCommands
  /\ promises' = r.promises
  /\ issued' = r.issued
  /\ inbound' = m
  /\ rpcEffects' = r.rpcEffects
  /\ resolveOrder' = resolveOrder \o ResolvedBy(r.rpcEffects)
  /\ op' = o
  /\ effects' = <<>>
  /\ phase' = Follow(phase, o)
  /\ notified' = <<>>
  /\ UNCHANGED <<active, ws, state, connectionWatchdog, heartbeatTimeout,
                 connectionToken, watchdogTimers, heartbeatTimers,
                 reconnectTimers, handshakes, created, tokens, closed,
                 interrupted, afterShutdown>>

\* the sockets an event can come from
SocketArgs == (1..created) \cup {Foreign}

Init ==
  /\ active = FALSE
  /\ ws = Null
  /\ state = Disconnected
  /\ connectionWatchdog = Null
  /\ heartbeatTimeout = Null
  /\ connectionToken = Null
  /\ watchdogTimers = {}
  /\ heartbeatTimers = {}
  /\ reconnectTimers = 0
  /\ handshakes = {}
  /\ created = 0
  /\ tokens = 0
  /\ closed = {}
  /\ interrupted = TRUE
  /\ afterShutdown = FALSE
  /\ effects = <<>>
  /\ op = Op("new", Null, Null, FALSE)
  /\ phase = "fresh"
  /\ notified = <<>>
  /\ pendingCommands = <<>>
  /\ promises = <<>>
  /\ issued = 0
  /\ inbound = Null
  /\ rpcEffects = <<>>
  /\ resolveOrder = <<>>

Activate == Commit(activate(Self), Op("activate", Null, Null, FALSE))

Shutdown == Commit(shutdown(Self), Op("shutdown", Null, Null, FALSE))

HandleWebSocketOpen ==
  Commit(handleWebSocketOpen(Self), Op("handleWebSocketOpen", Null, Null, FALSE))

HandleWebSocketError ==
  \E s \in SocketArgs :
    Commit(handleWebSocketError(Self, s), Op("handleWebSocketError", s, Null, FALSE))

HandleWebSocketClosed ==
  \E s \in SocketArgs :
    Commit(handleWebSocketClosed(Self, s), Op("handleWebSocketClosed", s, Null, FALSE))

HandleWebSocketHeartbeatTimeout ==
  Commit(handleWebSocketHeartbeatTimeout(Self),
         Op("handleWebSocketHeartbeatTimeout", Null, Null, FALSE))

\* a pending watchdog timeout elapses
WatchdogFire ==
  \E h \in watchdogTimers :
    Commit(watchdogCallback([Self EXCEPT !.watchdogTimers = @ \ {h}]),
           Op("watchdog", Null, Null, FALSE))

\* a heartbeat interval ticks
HeartbeatTick ==
  \E h \in heartbeatTimers :
    Commit(heartbeatCallback(Self), Op("heartbeat", Null, Null, FALSE))

\* a pending reconnect-delay timeout elapses
ReconnectTimerFire ==
  /\ reconnectTimers > 0
  /\ Commit(reconnectTimerCallback([Self EXCEPT !.reconnectTimers = @ - 1]),
            Op("reconnectTimer", Null, Null, FALSE))

\* the promise of a pending handshake settles
HandshakeResolve ==
  \E t \in handshakes, success \in BOOLEAN :
    Commit(handshakeContinuation(Self, t, success), Op("handshake", Null, t, success))

Next ==
  \/ Activate
  \/ Shutdown
  \/ HandleWebSocketOpen
  \/ HandleWebSocketError
  \/ HandleWebSocketClosed
  \/ HandleWebSocketHeartbeatTimeout
  \/ WatchdogFire
  \/ HeartbeatTick
  \/ ReconnectTimerFire
  \/ HandshakeResolve

Spec == Init /\ [][Next]_vars

Call ==
  \E command \in Commands :
    RpcCommit(call(This, command), Op("call", Null, Null, FALSE), Null)

TryHandleAsControlMessage ==
  \E message \in Messages :
    LET r == tryHandleAsControlMessage(This, message) IN
    RpcCommit(r, Op("tryHandleAsControlMessage", Null, Null, r.returned), message)

Send == Commit(send(Self), Op("send", Null, Null, isConnected(Self)))

\* the commands of a well-behaved caller: execute does not throw and one
\* message is the response
Requests == {c \in Commands : ~c.throws /\ Cardinality(c.accepts) = 1}

RpcNext ==
  \/ Call
  \/ TryHandleAsControlMessage

\* the correlation layer on its own, driven by the caller
RpcSpec == Init /\ [][RpcNext]_vars

\* GreatWebSocket as a whole: the supervisor it wraps, send, and the
\* correlation layer for one caller that issues well-behaved commands
IssueRequest ==
  \E command \in Requests :
    /\ issued < MaxCalls - 1
    /\ RpcCommit(call(This, command), Op("call", Null, Null, FALSE), Null)

\* the supervisor's steps are explored one short of each of its bounds
Tight ==
  /\ created' < MaxSockets
  /\ tokens' < MaxTokens
  /\ reconnectTimers' < MaxReconnectTimers
  /\ Cardinality(watchdogTimers') < MaxWatchdogs

GwsNext ==
  \/ Next /\ Tight
  \/ Send
  \/ IssueRequest
  \/ TryHandleAsControlMessage

GwsSpec == Init /\ [][GwsNext]_vars

\* the supervisor with its timers firing: the host fires a pending watchdog
\* timeout in the end. An open signal is explored only with room for the
\* reconnect-delay timer that the watchdog of this Limbo will arm, so that no
\* bound of the exploration holds a watchdog back.
Timeout == WatchdogFire /\ Tight

LimboNext ==
  /\ Next
  /\ Tight
  /\ op'.name = "handleWebSocketOpen"
       => reconnectTimers < MaxReconnectTimers - 1

LimboSpec == Init /\ [][LimboNext]_vars /\ WF_vars(Timeout)

\* ---- properties ---------------------------------------------------------
\* the fields of the instance, the host's timers and continuations, and the
\* sockets: everything but the history variables
fields ==
  <<active, ws, state, connectionWatchdog, heartbeatTimeout, connectionToken>>

host ==
  <<watchdogTimers, heartbeatTimers, reconnectTimers, handshakes, created,
    tokens, closed>>

OfKind(es, k) == SelectSeq(es, LAMBDA e : e.kind = k)

SocketSignals == {"handleWebSocketError", "handleWebSocketClosed"}

\* the step is a failure signal that passes the identity check
FailureAccepted ==
  \/ op'.name \in SocketSignals /\ op'.ws = ws
  \/ op'.name \in {"handleWebSocketHeartbeatTimeout", "watchdog"}

\* C1: a handshake confirmation that completes after the reconnect procedure,
\* after shutdown() or after a newer transport-open changes nothing, and the
\* state becomes Connected only by a confirmation of true for the handshake
\* of the most recent transport-open with no reconnect or shutdown since.
C1_StaleHandshakeIgnored ==
  [][/\ (op'.name = "handshake" /\ (op'.token # tokens \/ interrupted))
          => (UNCHANGED fields /\ UNCHANGED watchdogTimers /\ effects' = <<>>)
     /\ (state' = Connected /\ state # Connected)
          => (/\ op'.name = "handshake"
              /\ op'.success
              /\ op'.token = tokens
              /\ ~interrupted)]_vars

\* a true confirmation of the latest handshake arrived after the reconnect
\* procedure had run
C1_Witness ==
  /\ op.name = "handshake"
  /\ op.success
  /\ op.token = tokens
  /\ interrupted
  /\ state = Reconnecting

\* C2: handleWebSocketError(s) and handleWebSocketClosed(s) with s other than
\* the current socket (also when there is none) change no field and no timer,
\* close no socket, emit nothing and arm no reconnect timer.
C2_StaleSocketIgnored ==
  [][(op'.name \in SocketSignals /\ op'.ws # ws)
       => (UNCHANGED fields /\ UNCHANGED host /\ effects' = <<>>)]_vars

\* a signal from an earlier socket of this instance arrived in Limbo, where a
\* signal from the current one would start the reconnect procedure
C2_Witness ==
  /\ op.name \in SocketSignals
  /\ op.ws \in 1..created
  /\ ws \notin {Null, op.ws}
  /\ state = Limbo
  /\ active

\* C3: after shutdown() and until the next activate(), no lifecycle signal,
\* timer or handshake completion emits a state-change notification.
C3_NoStateChangeAfterShutdown ==
  [][(afterShutdown /\ op'.name # "activate")
       => OfKind(effects', "statechange") = <<>>]_vars

\* C4: after shutdown() and until the next activate(), the socket factory is
\* not invoked, neither by a lifecycle signal nor by a reconnect-delay timer
\* armed before the shutdown.
C4_NoSocketAfterShutdown ==
  [][(afterShutdown /\ op'.name # "activate")
       => (created' = created /\ OfKind(effects', "createWs") = <<>>)]_vars

\* a reconnect-delay timer armed before the shutdown elapsed after it, with no
\* socket held
C4_Witness ==
  /\ afterShutdown
  /\ op.name = "reconnectTimer"
  /\ ws = Null

\* C5: a watchdog is pending only while the state is Limbo (every exit from
\* Limbo disarms it), and at most one watchdog is pending at any time.
C5_WatchdogOnlyInLimbo ==
  /\ watchdogTimers # {} => state = Limbo
  /\ Cardinality(watchdogTimers) <= 1

\* C6: while active, a failure signal that passes the identity check leaves
\* the state Reconnecting, the previous socket closed exactly once, no socket
\* held, the token invalidated, no watchdog pending and a reconnect-delay
\* timer pending.
C6_FailureStartsReconnect ==
  [][(active /\ FailureAccepted)
       => (/\ state' = Reconnecting
           /\ ws' = Null
           /\ connectionToken' = Null
           /\ connectionWatchdog' = Null
           /\ watchdogTimers' = {}
           /\ reconnectTimers' = reconnectTimers + 1
           /\ ws # Null => /\ ws \notin closed
                           /\ closed' = closed \cup {ws}
                           /\ OfKind(effects', "close") = <<CloseCall(ws)>>
           /\ ws = Null => OfKind(effects', "close") = <<>>)]_vars

\* C7: activate() while active fails with 'Already active' and changes
\* nothing: no socket is created, no field or timer changes, nothing is
\* emitted.
C7_ActivateTwiceThrows ==
  [][(active /\ op'.name = "activate")
       => (UNCHANGED fields /\ UNCHANGED host /\ effects' = <<Thrown>>)]_vars

\* activate() was refused while a socket was held
C7_Witness ==
  /\ op.name = "activate"
  /\ effects = <<Thrown>>
  /\ active
  /\ ws # Null

C9_ScenarioTwoNotifications ==
  phase = "handshaken"
    => (/\ state = Connected
        /\ notified = <<StateChange(Limbo), StateChange(Connected)>>)

\* C10: a state-change notification is emitted only by an operation that
\* changes the state to a different value, once, carrying the new state; a
\* failure signal while already Reconnecting emits none.
C10_NotifyOnlyOnChange ==
  [][/\ Len(OfKind(effects', "statechange")) <= 1
     /\ OfKind(effects', "statechange") # <<>>
          => (/\ state' # state
              /\ OfKind(effects', "statechange") = <<StateChange(state')>>)
     /\ (active /\ state = Reconnecting /\ FailureAccepted)
          => OfKind(effects', "statechange") = <<>>]_vars

\* a second failure signal ran the reconnect procedure while already
\* Reconnecting and emitted nothing
C10_Witness ==
  /\ op.name = "handleWebSocketHeartbeatTimeout"
  /\ active
  /\ state = Reconnecting
  /\ effects = <<>>
  /\ reconnectTimers = 2

\* C11: after activate(), handleWebSocketOpen() and the watchdog elapsing with
\* the handshake unresolved or resolved false, exactly one connectiontimeout
\* notification was emitted, before the reconnect procedure ran, and the
\* state is Reconnecting.
C11_ScenarioWatchdogTimeout ==
  phase = "timedout"
    => (/\ state = Reconnecting
        /\ Len(OfKind(notified, "connectiontimeout")) = 1
        /\ effects = <<ConnectionTimeoutEvent, StateChange(Reconnecting),
                       CloseCall(created)>>)

\* the watchdog elapsed after the handshake had resolved false
C11_Witness ==
  /\ phase = "timedout"
  /\ handshakes = {}
  /\ op.name = "watchdog"

\* C12: sendHeartbeat is invoked only by a heartbeat tick at which active is
\* true, the state is Connected and a socket is held, with that socket; a
\* tick in any other situation, and every other operation, invokes it not at
\* all, so never while Disconnected or between shutdown() and activate().
C12_HeartbeatOnlyWhenConnected ==
  [][/\ OfKind(effects', "sendHeartbeat") # <<>>
          => (/\ op'.name = "heartbeat"
              /\ active /\ state = Connected /\ ws # Null
              /\ ~afterShutdown
              /\ effects' = <<HeartbeatCall(ws)>>)
     /\ (op'.name = "heartbeat" /\ active /\ state = Connected /\ ws # Null)
          => effects' = <<HeartbeatCall(ws)>>]_vars

\* a heartbeat was sent on a replacement socket
C12_Witness ==
  /\ op.name = "heartbeat"
  /\ effects = <<HeartbeatCall(ws)>>
  /\ ws > 1

\* C13: apart from activate(), the socket factory is invoked only by a
\* reconnect-delay callback that finds the instance active and holding no
\* socket, once; a callback that finds a socket held creates none, so
\* several failure signals before the delay yield one replacement socket.
C13_OneReplacementSocket ==
  [][/\ (OfKind(effects', "createWs") # <<>> /\ op'.name # "activate")
          => (/\ op'.name = "reconnectTimer"
              /\ active /\ ws = Null
              /\ created' = created + 1
              /\ OfKind(effects', "createWs") = <<CreateCall(created')>>)
     /\ (op'.name = "reconnectTimer" /\ ws # Null)
          => (created' = created /\ ws' = ws /\ effects' = <<>>)]_vars

\* the second of two reconnect-delay timers elapsed after the first had
\* created the replacement socket
C13_Witness ==
  /\ op.name = "reconnectTimer"
  /\ effects = <<>>
  /\ active
  /\ ws = 2
  /\ created = 2
  /\ reconnectTimers = 0

\* C14: retry is unbounded.  Whatever the number of earlier failures, a
\* failure signal accepted while active throws nothing, keeps the instance
\* active and leaves a reconnect-delay timer pending; while the instance is
\* active and holds no socket such a timer stays pending; and when it elapses
\* in that situation it creates the replacement socket.  No operation but
\* activate() throws.
C14_RetryForever ==
  [][/\ (active /\ FailureAccepted)
          => (active' /\ ws' = Null /\ reconnectTimers' > 0)
     /\ (active' /\ ws' = Null) => reconnectTimers' > 0
     /\ (op'.name = "reconnectTimer" /\ active /\ ws = Null)
          => (created' = created + 1 /\ ws' = created' /\ active')
     /\ op'.name # "activate" => OfKind(effects', "throw") = <<>>]_vars

\* after two failures a reconnect-delay timer created the third socket
C14_Witness ==
  /\ op.name = "reconnectTimer"
  /\ effects = <<CreateCall(MaxSockets)>>
  /\ active
  /\ state = Reconnecting

\* C15: shutdown() followed by activate() behaves like the first activation:
\* afterwards the instance is active in Connecting with exactly one new
\* socket, which is the current one, the heartbeat interval running, and no
\* watchdog and no live handshake left over from before the shutdown that
\* could later change the state.
C15_ShutdownThenActivate ==
  [][(op.name = "shutdown" /\ op'.name = "activate")
       => (/\ active'
           /\ state' = Connecting
           /\ created' = created + 1
           /\ OfKind(effects', "createWs") = <<CreateCall(created')>>
           /\ ws' = created'
           /\ heartbeatTimeout' # Null
           /\ heartbeatTimers' = {heartbeatTimeout'}
           /\ connectionToken' = Null
           /\ connectionWatchdog' = Null
           /\ watchdogTimers' = {})]_vars

\* C16: every shutdown() leaves the instance inactive with no heartbeat
\* interval and no watchdog pending and calls close() on the socket it
\* refers to, if any, keeping the reference; a second consecutive shutdown()
\* changes nothing but for one more close() on that socket.
C16_ShutdownIdempotent ==
  [][/\ op'.name = "shutdown"
          => (/\ ~active'
              /\ heartbeatTimeout' = Null /\ heartbeatTimers' = {}
              /\ connectionWatchdog' = Null /\ watchdogTimers' = {}
              /\ ws' = ws
              /\ effects' = IF ws = Null THEN <<>> ELSE <<CloseCall(ws)>>)
     /\ (op.name = "shutdown" /\ op'.name = "shutdown")
          => (UNCHANGED fields /\ UNCHANGED host)]_vars

\* C17: a reconnect-delay timer is pending only while the state is
\* Reconnecting, and when shutdown() returns no timer of the instance is
\* pending.
C17_ReconnectTimerOnlyWhileReconnecting ==
  /\ reconnectTimers > 0 => state = Reconnecting
  /\ op.name = "shutdown"
       => (reconnectTimers = 0 /\ watchdogTimers = {} /\ heartbeatTimers = {})

C19_HeartbeatTimeoutInactiveNoOp ==
  [][(~active /\ op'.name = "handleWebSocketHeartbeatTimeout")
       => (state' = state /\ Notifications(effects') = <<>>)]_vars
\* C20: a dispatch whose message some pending exchange accepts resolves the
\* promise of the first such exchange, in issuance order, with the result of
\* its handleResponse, removes that exchange alone and returns true; every
\* other exchange, a later one that accepts the message included, keeps its
\* place in the pending array and its promise is not settled.
C20_FirstMatchResolved ==
  [][(op'.name = "tryHandleAsControlMessage"
        /\ find(pendingCommands, inbound') # Null)
       => LET at == find(pendingCommands, inbound')
              matched == pendingCommands[at]
          IN /\ op'.success
             /\ \A i \in 1..(at - 1) :
                   ~responseMatches(pendingCommands[i].command, inbound')
             /\ promises'[matched.id]
                   = Resolved(handleResponse(matched.command, inbound'))
             /\ pendingCommands'
                   = SubSeq(pendingCommands, 1, at - 1)
                       \o SubSeq(pendingCommands, at + 1, Len(pendingCommands))
             /\ \A n \in 1..issued :
                   n # matched.id => promises'[n] = promises[n]
             /\ issued' = issued]_vars
\* the exchanges of a pending array, by their identity
Ids(cmds) == {cmds[i].id : i \in DOMAIN cmds}

\* some exchange of the pending array accepts the message
Accepted(cmds, message) ==
  \E i \in DOMAIN cmds : responseMatches(cmds[i].command, message)

\* C21: the promise of an exchange is settled at most once. A settled promise
\* never changes; a promise changes after call() returned only by becoming
\* resolved in the dispatch that removes its exchange from the pending array;
\* resolve is called on no exchange that is not removed in the same step, a
\* removed exchange never comes back, and a dispatch returns true exactly
\* when a pending exchange accepts the message, so that the repetition of a
\* message whose exchange was removed returns false unless another pending
\* exchange accepts it.
C21_SettledAtMostOnce ==
  [][/\ \A n \in 1..issued :
          /\ promises[n].status # "pending" => promises'[n] = promises[n]
          /\ promises'[n] # promises[n]
               => (/\ op'.name = "tryHandleAsControlMessage"
                   /\ promises'[n].status = "resolved"
                   /\ n \in Ids(pendingCommands)
                   /\ n \notin Ids(pendingCommands'))
          /\ n \notin Ids(pendingCommands) => n \notin Ids(pendingCommands')
     /\ \A i \in DOMAIN rpcEffects' :
          rpcEffects'[i].kind = "resolve"
            => (/\ rpcEffects'[i].id \in Ids(pendingCommands)
                /\ rpcEffects'[i].id \notin Ids(pendingCommands'))
     /\ op'.name = "tryHandleAsControlMessage"
          => (op'.success <=> Accepted(pendingCommands, inbound'))]_vars

\* a message that resolved an exchange is dispatched again and not handled
C21_Witness ==
  /\ op.name = "tryHandleAsControlMessage"
  /\ ~op.success
  /\ \E n \in 1..issued :
       /\ promises[n].status = "resolved"
       /\ promises[n].value[2] = inbound
       /\ n \notin Ids(pendingCommands)
\* C22: a dispatch whose message no pending exchange accepts returns false
\* and changes nothing: the pending array, every promise and the number of
\* exchanges are as before, and neither handleResponse nor resolve is called.
C22_NoMatchNoMutation ==
  [][(op'.name = "tryHandleAsControlMessage"
        /\ ~Accepted(pendingCommands, inbound'))
       => (/\ ~op'.success
           /\ pendingCommands' = pendingCommands
           /\ promises' = promises
           /\ issued' = issued
           /\ rpcEffects' = <<>>)]_vars

\* a message is dispatched that none of two pending, unsettled exchanges accepts
C22_Witness ==
  /\ op.name = "tryHandleAsControlMessage"
  /\ ~op.success
  /\ Len(pendingCommands) = MaxCalls
  /\ rpcEffects = <<>>
  /\ \A n \in 1..issued : promises[n] = Unsettled
  /\ \E m \in Messages \ {inbound} : Accepted(pendingCommands, m)
\* C23: send returns true exactly when it handed the payload to the current
\* socket, and it hands the payload over only in state Connected; when it
\* returns false it writes to no socket; in either case it changes no field,
\* timer or pending exchange, so nothing is kept for later delivery.
C23_SendOnlyWhenConnected ==
  [][op'.name = "send"
       => (/\ op'.success <=> (ws # Null /\ effects' = <<SendCall(ws)>>)
           /\ OfKind(effects', "send") # <<>> => state = Connected
           /\ ~op'.success => effects' = <<>>
           /\ UNCHANGED <<fields, host, pendingCommands, promises>>)]_vars
RpcOps == {"call", "tryHandleAsControlMessage"}

\* C25: no step of the supervisor (an operation, a signal, a timer or a
\* handshake completion) nor send changes the pending array or a promise; an
\* exchange leaves the pending array only in a dispatch, and the promise of a
\* pending exchange changes only in a dispatch whose message the exchange
\* accepts, so an exchange without a matching message stays unsettled.
C25_SupervisorLeavesExchanges ==
  [][/\ op'.name \notin RpcOps
          => UNCHANGED <<pendingCommands, promises, issued>>
     /\ Ids(pendingCommands) \ Ids(pendingCommands') # {}
          => op'.name = "tryHandleAsControlMessage"
     /\ \A i \in DOMAIN pendingCommands :
          promises'[pendingCommands[i].id] # promises[pendingCommands[i].id]
            => (/\ op'.name = "tryHandleAsControlMessage"
                /\ responseMatches(pendingCommands[i].command, inbound'))]_vars

\* an exchange is pending and unsettled while the supervisor, after a
\* failure, replaces the socket
C25_Witness ==
  /\ op.name = "reconnectTimer"
  /\ effects = <<CreateCall(created)>>
  /\ closed # {}
  /\ pendingCommands # <<>>
  /\ \A n \in 1..issued : promises[n] = Unsettled
\* C26: when the reconnect-delay callback creates the replacement socket the
\* state becomes Connecting, and no step takes the state from Reconnecting
\* to Limbo.
C26_ReconnectThroughConnecting ==
  [][/\ (op'.name = "reconnectTimer" /\ created' = created + 1)
          => state' = Connecting
     /\ ~(state = Reconnecting /\ state' = Limbo)]_vars
\* C27: handleWebSocketOpen() ends in Limbo whatever the state was; the token
\* it stamps is new (no earlier open stamped it, no pending continuation
\* captured it) and it starts one handshake confirmation, which captures that
\* token; afterwards exactly one watchdog is pending, the one the instance
\* refers to; when the state was Limbo already, no notification is emitted
\* and the pending watchdogs are as before, while the continuations of the
\* earlier handshakes hold tokens that are no longer current.
C27_OpenEntersLimbo ==
  [][op'.name = "handleWebSocketOpen"
       => (/\ state' = Limbo
           /\ tokens' = tokens + 1
           /\ connectionToken' = tokens'
           /\ connectionToken' \notin handshakes
           /\ handshakes' = handshakes \cup {connectionToken'}
           /\ connectionWatchdog' # Null
           /\ watchdogTimers' = {connectionWatchdog'}
           /\ state = Limbo
                => (/\ Notifications(effects') = <<>>
                    /\ watchdogTimers' = watchdogTimers
                    /\ connectionWatchdog' = connectionWatchdog)
           /\ state # Limbo => effects' = <<StateChange(Limbo)>>)]_vars
\* C28: a handshake confirmation that resolves false changes no field of the
\* instance, no timer and no socket, and emits nothing; when the state is
\* Limbo it is Limbo afterwards and the watchdog the instance refers to is
\* still pending, so that the failure shows when that watchdog fires or a
\* failure signal arrives.
C28_HandshakeFalseNoTransition ==
  [][(op'.name = "handshake" /\ ~op'.success)
       => (/\ UNCHANGED fields
           /\ UNCHANGED <<watchdogTimers, heartbeatTimers, reconnectTimers,
                          created, closed>>
           /\ effects' = <<>>
           /\ state = Limbo
                => (/\ state' = Limbo
                    /\ connectionWatchdog' # Null
                    /\ connectionWatchdog' \in watchdogTimers'))]_vars

\* the handshake of the current open signal of an active instance resolved
\* false
C28_Witness ==
  /\ op.name = "handshake" /\ ~op.success
  /\ op.token = connectionToken
  /\ active /\ ws # Null /\ state = Limbo
  /\ watchdogTimers = {connectionWatchdog}
\* C29: Limbo does not last. With the pending watchdog firing in the end,
\* a supervisor in Limbo leaves Limbo, whether or not a handshake completes;
\* it leaves to Connected when the step is a handshake that resolved true and
\* to Reconnecting or Disconnected otherwise.
C29_LimboLeaves ==
  /\ (state = Limbo) ~> (state # Limbo)
  /\ [][(state = Limbo /\ state' # Limbo)
          => IF op'.name = "handshake"
               THEN op'.success /\ state' = Connected
               ELSE state' \in {Reconnecting, Disconnected}]_vars
\* C30: the state is always one of Disconnected, Connecting, Limbo,
\* Connected and Reconnecting, never Error, and every state change announced
\* carries one of the five; a newly constructed instance is Disconnected,
\* inactive and without a socket.
C30_FiveStates ==
  /\ state \in {Disconnected, Connecting, Limbo, Connected, Reconnecting}
  /\ state # Error
  /\ \A i \in DOMAIN effects :
       effects[i].kind = "statechange" => effects[i].state # Error
  /\ op.name = "new" => (state = Disconnected /\ ~active /\ ws = Null)

\* an inactive instance went through the reconnect procedure
C30_Witness ==
  /\ op.name \in SocketSignals \cup {"handleWebSocketHeartbeatTimeout", "watchdog"}
  /\ ~active
  /\ effects # <<>>
  /\ state = Disconnected
\* C31: the state becomes Connected only from Limbo, and then by a handshake
\* confirmation.
C31_ConnectedOnlyFromLimbo ==
  [][(state' = Connected /\ state # Connected)
       => (state = Limbo /\ op'.name = "handshake")]_vars
\* C32: the state follows the notifications. After every step the state is
\* the one carried by the last state-change notification of the step, or the
\* state before the step when the step emitted none, and no notification
\* carries the state announced just before it (the state before the step for
\* the first one of a step).
C32_NotificationsTrackState ==
  [][LET sc == OfKind(effects', "statechange") IN
     /\ state' = IF sc = <<>> THEN state ELSE sc[Len(sc)].state
     /\ \A i \in 1..Len(sc) :
          sc[i].state # (IF i = 1 THEN state ELSE sc[i - 1].state)]_vars
\* C33: in state Connected the instance holds a socket.
C33_ConnectedHasSocket == state = Connected => ws # Null
\* C34: every socket the factory returned, but for the current one, has had
\* close() called on it, so at most one is unclosed; and the reference to a
\* socket is dropped or overwritten only when close() has been called on it.
C34_NoSocketLeaked ==
  /\ (1..created) \ closed \subseteq {ws}
  /\ Cardinality((1..created) \ closed) <= 1
  /\ ws # Null => ws \in 1..created

\* the third socket is current and unclosed after two were closed
C34_Witness ==
  /\ created = MaxSockets
  /\ ws = created
  /\ closed = 1..(created - 1)
  /\ active
C36_HeartbeatWhileActive ==
  /\ [](/\ Cardinality(heartbeatTimers) <= 1
        /\ active => (heartbeatTimeout # Null
                        /\ heartbeatTimers = {heartbeatTimeout})
        /\ ~active => (heartbeatTimeout = Null /\ heartbeatTimers = {}))
  /\ [][op'.name \notin {"activate", "shutdown"}
          => UNCHANGED <<heartbeatTimeout, heartbeatTimers>>]_vars

\* the interval is running after the reconnect that created the last socket
C36_Witness ==
  /\ op.name = "reconnectTimer"
  /\ effects = <<CreateCall(MaxSockets)>>
  /\ active
  /\ heartbeatTimers = {heartbeatTimeout}
  /\ Cardinality(closed) = MaxSockets - 1
\* C37: when the execute of a command throws in call(), the promise returned
\* is rejected and the exchange is not left in the pending array; no dispatch
\* calls handleResponse or resolve on an exchange whose promise was rejected.
C37_FailedExecuteNotPending ==
  [][/\ op'.name = "call"
          => (/\ issued' = issued + 1
              /\ promises'[issued'] \in {Rejected, Unsettled}
              /\ promises'[issued'] = Rejected
                   => issued' \notin Ids(pendingCommands')
              /\ promises'[issued'] = Unsettled
                   => issued' \in Ids(pendingCommands'))
     /\ \A i \in DOMAIN rpcEffects' :
          rpcEffects'[i].kind \in {"handleResponse", "resolve"}
            => promises[rpcEffects'[i].id] # Rejected]_vars

====
